---- MODULE Spec2Model ----
(***************************************************************************)
(* Model of eli5/sklearn/text.py: get_weighted_spans and its helpers.       *)
(*                                                                         *)
(* Python strings are sequences of tokens (one token per character, the    *)
(* two literals of the summary label being one token each), so prefix      *)
(* tests, slicing and formatting are computed and not assumed.  Weights    *)
(* are integers.  A Python None is the record None; an Optional[str] is    *)
(* <<>> (None) or <<s>>.                                                   *)
(***************************************************************************)
EXTENDS Integers, Sequences, FiniteSets, Bags

VARIABLES doc, vec, feature_weights, pc, result, named_found_features

vars == <<doc, vec, feature_weights, pc, result, named_found_features>>

(* ------------------------------ bounds --------------------------------- *)
MaxLen == 2
MaxDoc == 2

(* ------------------------- values of the inputs ------------------------ *)
Abs(x) == IF x < 0 THEN -x ELSE x

None == [isNone |-> TRUE]

EmptyStr == <<>>
SEP == <<"_", "_">>
TOK_T == <<"t">>
TOK_U == <<"u">>
NAME_A == <<"a">>
NAME_B == <<"b">>

StrFeature(s) == [kind |-> "str", value |-> s]
ListFeature(names) == [kind |-> "list",
                       value |-> [i \in DOMAIN names |-> [name |-> names[i]]]]
FormattedFeatureName(s) == [kind |-> "formatted", value |-> s]
FeatureWeight(feature, weight) == [feature |-> feature, weight |-> weight]
FeatureWeights(pos, neg, pos_remaining, neg_remaining) ==
  [pos |-> pos, neg |-> neg,
   pos_remaining |-> pos_remaining, neg_remaining |-> neg_remaining]
(* vec_name is <<>> until _get_weighted_spans_from_union sets it.           *)
DocWeightedSpans(document, spans, preserve_density) ==
  [document |-> document, spans |-> spans,
   preserve_density |-> preserve_density, vec_name |-> <<>>]
WeightedSpans(docs_weighted_spans, other) ==
  [isNone |-> FALSE, docs |-> docs_weighted_spans, other |-> other]

Vectorizer(analyzer) == [cls |-> "VectorizerMixin", analyzer |-> analyzer]
InvertableHashingVectorizer(v) == [cls |-> "InvertableHashingVectorizer", vec |-> v]
OtherTransformer == [cls |-> "Other"]
FeatureUnion(transformer_list) ==
  [cls |-> "FeatureUnion", transformer_list |-> transformer_list]

(* ------------------------- string primitives --------------------------- *)
StartsWith(x, p) == Len(x) >= Len(p) /\ SubSeq(x, 1, Len(p)) = p
SliceFrom(x, n) == SubSeq(x, n + 1, Len(x))

(* ------------------ eli5.sklearn._span_analyzers ----------------------- *)
(* A document is a sequence of one-character words; the preprocessed       *)
(* document joins them with single spaces.                                 *)
Join(words) ==
  LET RECURSIVE go(_)
      go(i) == IF i > Len(words) THEN <<>>
               ELSE (IF i = 1 THEN <<>> ELSE <<" ">>) \o words[i] \o go(i + 1)
  IN go(1)

(* The word analyzer yields one pair per word, the character analyzer one  *)
(* pair per character (spaces included); each pair is <<f_spans, feature>>.*)
WordPairs(words) ==
  [i \in DOMAIN words |-> << << <<2 * (i - 1), 2 * (i - 1) + 1>> >>, words[i] >>]
CharPairs(text) ==
  [k \in DOMAIN text |-> << << <<k - 1, k>> >>, <<text[k]>> >>]

build_span_analyzer(document, v) ==
  LET preprocessed_doc == Join(document)
  IN  [span_analyzer |->
         IF v.analyzer = "word" THEN << WordPairs(document) >>
         ELSE IF v.analyzer \in {"char", "char_wb"} THEN << CharPairs(preprocessed_doc) >>
         ELSE <<>>,
       preprocessed_doc |-> preprocessed_doc]

AnalyzerStartsWithChar(analyzer) == analyzer \in {"char", "char_wb"}

(* ------------------------------ text.py -------------------------------- *)
(* feature_fn is [vec_prefix |-> p] or NoFeatureFn (feature_fn=None).       *)
NoFeatureFn == [isNone |-> TRUE]
PrefixFn(vec_prefix) == [isNone |-> FALSE, vec_prefix |-> vec_prefix]

(* Variant: the prefix is cut off without testing that it is there.         *)
ApplyFeatureFn_NoPrefixTest(feature_fn, x) ==
  IF Len(x) >= Len(feature_fn.vec_prefix)
    THEN << SliceFrom(x, Len(feature_fn.vec_prefix)) >>
    ELSE <<>>

ApplyFeatureFn(feature_fn, x) ==
  IF StartsWith(x, feature_fn.vec_prefix)
    THEN << SliceFrom(x, Len(feature_fn.vec_prefix)) >>
    ELSE <<>>

Truthy(opt) == opt # <<>> /\ opt[1] # EmptyStr

_get_features(feature, feature_fn) ==
  LET features == IF feature.kind = "list"
                    THEN [i \in DOMAIN feature.value |-> feature.value[i].name]
                    ELSE << feature.value >>
  IN  IF feature_fn.isNone
        THEN features
        ELSE LET mapped == [i \in DOMAIN features |->
                              ApplyFeatureFn(feature_fn, features[i])]
                 kept == SelectSeq(mapped, Truthy)
             IN  [i \in DOMAIN kept |-> kept[i][1]]

(* The items of the dict comprehension, in the order it produces them.     *)
FeatureWeightsItems(fw, feature_fn) ==
  LET RECURSIVE go(_, _)
      go(group, i) ==
        IF i > Len(fw[group]) THEN <<>>
        ELSE LET fs == _get_features(fw[group][i].feature, feature_fn)
             IN  [j \in DOMAIN fs |->
                    [f |-> fs[j], weight |-> fw[group][i].weight,
                     key |-> <<group, i - 1>>]]
                 \o go(group, i + 1)
  IN go("pos", 1) \o go("neg", 1)

(* Variant: the first item of an identifier is kept.                        *)
LastIndexOf_First(items, f) ==
  CHOOSE i \in DOMAIN items :
    items[i].f = f /\ \A j \in DOMAIN items : items[j].f = f => i <= j

(* A dict built from items: a later item replaces an earlier one.          *)
LastIndexOf(items, f) ==
  CHOOSE i \in DOMAIN items :
    items[i].f = f /\ \A j \in DOMAIN items : items[j].f = f => j <= i

DictOf(items) ==
  [f \in {items[i].f : i \in DOMAIN items} |-> items[LastIndexOf(items, f)]]

feature_weights_dict(fw, feature_fn) == DictOf(FeatureWeightsItems(fw, feature_fn))

(* The loop over the analyzer's pairs: the spans list and found_features.  *)
MatchedPairs(pairs, table) ==
  SelectSeq(pairs, LAMBDA p : p[2] \in DOMAIN table)

(* Variant: each hit is put in front of the list.                           *)
SpansOf_Prepending(pairs, table) ==
  LET hits == MatchedPairs(pairs, table)
      n == Len(hits)
  IN  [i \in DOMAIN hits |->
         << hits[n + 1 - i][2], hits[n + 1 - i][1], table[hits[n + 1 - i][2]].weight >>]

SpansOf(pairs, table) ==
  LET hits == MatchedPairs(pairs, table)
  IN  [i \in DOMAIN hits |-> << hits[i][2], hits[i][1], table[hits[i][2]].weight >>]

(* Variant: the weight of a key is added once per discovery.                *)
FoundFeaturesOf_Accumulating(pairs, table) ==
  LET hits == MatchedPairs(pairs, table)
      keys == {table[hits[i][2]].key : i \in DOMAIN hits}
      times(k) == Cardinality({i \in DOMAIN hits : table[hits[i][2]].key = k})
      weight(k) == table[hits[CHOOSE i \in DOMAIN hits : table[hits[i][2]].key = k][2]].weight
  IN  [k \in keys |-> times(k) * weight(k)]

FoundFeaturesOf(pairs, table) ==
  LET hits == MatchedPairs(pairs, table)
      keys == {table[hits[i][2]].key : i \in DOMAIN hits}
      last(k) == CHOOSE i \in DOMAIN hits :
                   table[hits[i][2]].key = k
                   /\ \A j \in DOMAIN hits : table[hits[j][2]].key = k => j <= i
  IN  [k \in keys |-> table[hits[last(k)][2]].weight]

_get_doc_weighted_spans(document, v0, fw, feature_fn) ==
  LET v == IF v0.cls = "InvertableHashingVectorizer" THEN v0.vec ELSE v0
  IN  IF v.cls # "VectorizerMixin" THEN None
      ELSE LET built == build_span_analyzer(document, v)
           IN  IF built.span_analyzer = <<>> THEN None
               ELSE LET table == feature_weights_dict(fw, feature_fn)
                        pairs == built.span_analyzer[1]
                    IN  [isNone |-> FALSE,
                         found_features |-> FoundFeaturesOf(pairs, table),
                         doc_weighted_spans |->
                           DocWeightedSpans(built.preprocessed_doc,
                                            SpansOf(pairs, table),
                                            AnalyzerStartsWithChar(v.analyzer))]

(* sum(found_features.values()) *)
SumValues(found_features) ==
  LET RECURSIVE go(_)
      go(keys) == IF keys = {} THEN 0
                  ELSE LET k == CHOOSE x \in keys : TRUE
                       IN  found_features[k] + go(keys \ {k})
  IN go(DOMAIN found_features)

(* '{}Highlighted in text (sum)'.format('{}: '.format(vec_name) if vec_name else '') *)
SummaryLabel(vec_name) ==
  (IF vec_name # EmptyStr THEN vec_name \o <<": ">> ELSE EmptyStr)
    \o <<"Highlighted in text (sum)">>

(* Variant: only the last source's map is consulted.                        *)
UnaccountedItems_LastSourceOnly(fw, named_found_features_) ==
  LET n == Len(named_found_features_)
      found == IF n = 0 THEN {} ELSE DOMAIN named_found_features_[n][2]
      keep(group) == {i \in DOMAIN fw[group] : <<group, i - 1>> \notin found}
      pick(group) == [i \in DOMAIN fw[group] |-> IF i \in keep(group) THEN <<fw[group][i]>> ELSE <<>>]
      RECURSIVE flat(_, _)
      flat(seqs, i) == IF i > Len(seqs) THEN <<>> ELSE seqs[i] \o flat(seqs, i + 1)
  IN  flat(pick("pos"), 1) \o flat(pick("neg"), 1)

(* The first loops of _get_other: the items that were not accounted at all. *)
UnaccountedItems(fw, named_found_features_) ==
  LET all_found_features ==
        UNION {DOMAIN named_found_features_[i][2] : i \in DOMAIN named_found_features_}
      RECURSIVE go(_, _, _)
      go(group, i, accounted_keys) ==
        IF i > Len(fw[group])
          THEN IF group = "pos" THEN go("neg", 1, accounted_keys) ELSE <<>>
          ELSE LET key == <<group, i - 1>>
               IN  IF key \notin all_found_features /\ key \notin accounted_keys
                     THEN <<fw[group][i]>> \o go(group, i + 1, accounted_keys \cup {key})
                     ELSE go(group, i + 1, accounted_keys)
  IN go("pos", 1, {})

(* Variant: a summary item for every source, matched or not.                *)
SummaryItems_Unconditional(named_found_features_) ==
  [i \in DOMAIN named_found_features_ |->
     FeatureWeight(FormattedFeatureName(SummaryLabel(named_found_features_[i][1])),
                   SumValues(named_found_features_[i][2]))]

(* The second loop of _get_other: one summary item per non-empty map.       *)
SummaryItems(named_found_features_) ==
  LET RECURSIVE go(_)
      go(i) ==
        IF i > Len(named_found_features_) THEN <<>>
        ELSE LET vec_name == named_found_features_[i][1]
                 found_features == named_found_features_[i][2]
             IN  (IF DOMAIN found_features # {}
                    THEN << FeatureWeight(FormattedFeatureName(SummaryLabel(vec_name)),
                                          SumValues(found_features)) >>
                    ELSE <<>>)
                 \o go(i + 1)
  IN go(1)

OtherItems(fw, named_found_features_) ==
  UnaccountedItems(fw, named_found_features_) \o SummaryItems(named_found_features_)

(* list.sort(key=lambda x: abs(x.weight), reverse=True): a stable sort.     *)
(* Variant: an item goes in front of the items of its own magnitude.        *)
InsertByAbsDesc_Unstable(sorted, x) ==
  LET n == Cardinality({i \in DOMAIN sorted : Abs(sorted[i].weight) > Abs(x.weight)})
  IN  SubSeq(sorted, 1, n) \o <<x>> \o SubSeq(sorted, n + 1, Len(sorted))

InsertByAbsDesc(sorted, x) ==
  LET n == Cardinality({i \in DOMAIN sorted : Abs(sorted[i].weight) >= Abs(x.weight)})
  IN  SubSeq(sorted, 1, n) \o <<x>> \o SubSeq(sorted, n + 1, Len(sorted))

SortByAbsDesc(items) ==
  LET RECURSIVE go(_, _)
      go(i, sorted) == IF i > Len(items) THEN sorted
                       ELSE go(i + 1, InsertByAbsDesc(sorted, items[i]))
  IN go(1, <<>>)

(* Variant: a strict comparison. *)
IsNonNegative_Strict(fw) == fw.weight > 0
IsNonNegative(fw) == fw.weight >= 0
IsNegative(fw) == fw.weight < 0

(* Variant: neg_remaining is copied from pos_remaining.                     *)
_get_other_CopiedRemaining(fw, named_found_features_) ==
  LET other_items == SortByAbsDesc(OtherItems(fw, named_found_features_))
  IN  FeatureWeights(SelectSeq(other_items, IsNonNegative),
                     SelectSeq(other_items, IsNegative),
                     fw.pos_remaining,
                     fw.pos_remaining)

_get_other(fw, named_found_features_) ==
  LET other_items == SortByAbsDesc(OtherItems(fw, named_found_features_))
  IN  FeatureWeights(SelectSeq(other_items, IsNonNegative),
                     SelectSeq(other_items, IsNegative),
                     fw.pos_remaining,
                     fw.neg_remaining)

(* The loop of _get_weighted_spans_from_union over transformer_list.        *)
UnionResults(document, vec_union, fw) ==
  LET tl == vec_union.transformer_list
  IN  [i \in DOMAIN tl |->
         LET vec_name == tl[i][1]
             vec_prefix == vec_name \o SEP
         IN  [vec_name |-> vec_name,
              result |-> _get_doc_weighted_spans(document, tl[i][2], fw,
                                                 PrefixFn(vec_prefix))]]

UnionNamedFoundFeatures(document, vec_union, fw) ==
  LET rs == SelectSeq(UnionResults(document, vec_union, fw),
                      LAMBDA r : ~r.result.isNone)
  IN  [i \in DOMAIN rs |-> << rs[i].vec_name, rs[i].result.found_features >>]

UnionDocsWeightedSpans(document, vec_union, fw) ==
  LET rs == SelectSeq(UnionResults(document, vec_union, fw),
                      LAMBDA r : ~r.result.isNone)
  IN  [i \in DOMAIN rs |->
         [rs[i].result.doc_weighted_spans EXCEPT !.vec_name = rs[i].vec_name]]

(* Variant: the result is built whether or not any source applied.          *)
_get_weighted_spans_from_union_Always(document, vec_union, fw) ==
  WeightedSpans(UnionDocsWeightedSpans(document, vec_union, fw),
                _get_other(fw, UnionNamedFoundFeatures(document, vec_union, fw)))

_get_weighted_spans_from_union(document, vec_union, fw) ==
  LET docs_weighted_spans == UnionDocsWeightedSpans(document, vec_union, fw)
      nff == UnionNamedFoundFeatures(document, vec_union, fw)
  IN  IF docs_weighted_spans # <<>>
        THEN WeightedSpans(docs_weighted_spans, _get_other(fw, nff))
        ELSE None

(* ------------------------------ inputs --------------------------------- *)
Prefixed(name, s) == name \o SEP \o s

(* Plain and list features; a__t and b__t resolve to t in their source,    *)
(* the list feature <<a__u, b__t>> to u in source a and to t in source b.   *)
PosEntries ==
  { FeatureWeight(StrFeature(TOK_T), 1),
    FeatureWeight(StrFeature(Prefixed(NAME_A, TOK_T)), 1),
    FeatureWeight(StrFeature(Prefixed(NAME_B, TOK_T)), 2),
    FeatureWeight(ListFeature(<< Prefixed(NAME_A, TOK_U), Prefixed(NAME_B, TOK_T) >>), 2),
    FeatureWeight(ListFeature(<< TOK_T, TOK_U >>), 1) }

NegEntries ==
  { FeatureWeight(StrFeature(TOK_T), -1),
    FeatureWeight(StrFeature(Prefixed(NAME_A, TOK_T)), -2),
    FeatureWeight(StrFeature(Prefixed(NAME_B, TOK_T)), -1),
    FeatureWeight(ListFeature(<< Prefixed(NAME_A, TOK_U), Prefixed(NAME_B, TOK_T) >>), -1),
    FeatureWeight(ListFeature(<< TOK_T, TOK_U >>), -2) }

Remainings == { <<0, 1>>, <<2, 0>> }

(* FeatureWeights of at most MaxLen entries in all.                        *)
FeatureWeightsOfLengths(j, k) ==
  { FeatureWeights(p, n, r[1], r[2]) :
      p \in [1..j -> PosEntries], n \in [1..k -> NegEntries], r \in Remainings }

FeatureWeightsPool ==
  UNION { FeatureWeightsOfLengths(jk[1], jk[2]) :
            jk \in {x \in (0..MaxLen) \X (0..MaxLen) : x[1] + x[2] <= MaxLen} }

Docs == UNION {[1..k -> {TOK_T, TOK_U}] : k \in 0..MaxDoc}

VecPool ==
  { Vectorizer("word"),
    InvertableHashingVectorizer(Vectorizer("char")),
    Vectorizer("callable"),
    OtherTransformer }

(* Unions of no source, of source a, and of sources a and b.                *)
TransformerLists ==
  { <<>> }
    \cup { << <<NAME_A, v>> >> : v \in VecPool }
    \cup { << <<NAME_A, v>>, <<NAME_B, w>> >> : v \in VecPool, w \in VecPool }

Vecs == VecPool \cup {FeatureUnion(tl) : tl \in TransformerLists}

(* --------------------------- state machine ----------------------------- *)
Init ==
  /\ doc \in Docs
  /\ vec \in Vecs
  /\ feature_weights \in FeatureWeightsPool
  /\ pc = "call"
  /\ result = None
  /\ named_found_features = <<>>

(* get_weighted_spans, the isinstance(vec, FeatureUnion) branch *)
GetWeightedSpansUnion ==
  /\ pc = "call"
  /\ vec.cls = "FeatureUnion"
  /\ result' = _get_weighted_spans_from_union(doc, vec, feature_weights)
  /\ named_found_features' = UnionNamedFoundFeatures(doc, vec, feature_weights)
  /\ pc' = "done"
  /\ UNCHANGED <<doc, vec, feature_weights>>

(* get_weighted_spans, the else branch *)
GetWeightedSpansSingle ==
  /\ pc = "call"
  /\ vec.cls # "FeatureUnion"
  /\ LET r == _get_doc_weighted_spans(doc, vec, feature_weights, NoFeatureFn)
     IN  IF ~r.isNone
           THEN /\ named_found_features' = << <<EmptyStr, r.found_features>> >>
                /\ result' = WeightedSpans(<< r.doc_weighted_spans >>,
                                _get_other(feature_weights,
                                           << <<EmptyStr, r.found_features>> >>))
           ELSE /\ named_found_features' = <<>>
                /\ result' = None
  /\ pc' = "done"
  /\ UNCHANGED <<doc, vec, feature_weights>>

Next == GetWeightedSpansUnion \/ GetWeightedSpansSingle

Spec == Init /\ [][Next]_vars

(* ===================== vocabulary of the properties ==================== *)
Done == pc = "done"
Returned == Done /\ ~result.isNone
IsUnion == vec.cls = "FeatureUnion"

(* The sources of the call, as <<name, vectorizer>>, in source order.       *)
Sources == IF IsUnion THEN vec.transformer_list ELSE << <<EmptyStr, vec>> >>

Unwrapped(v) == IF v.cls = "InvertableHashingVectorizer" THEN v.vec ELSE v
Declines(v) ==
  \/ Unwrapped(v).cls # "VectorizerMixin"
  \/ Unwrapped(v).analyzer \notin {"word", "char", "char_wb"}
ApplicableSources == SelectSeq(Sources, LAMBDA s : ~Declines(s[2]))

(* What the analyzer of a source yields for the document.                  *)
PairsOfSource(s) == build_span_analyzer(doc, Unwrapped(s[2])).span_analyzer[1]
Discovered(s) == {PairsOfSource(s)[i][2] : i \in DOMAIN PairsOfSource(s)}

(* The (group, index) keys of the original FeatureWeights.                  *)
Keys == {<<"pos", i - 1>> : i \in DOMAIN feature_weights.pos}
          \cup {<<"neg", i - 1>> : i \in DOMAIN feature_weights.neg}
FwAt(k) == feature_weights[k[1]][k[2] + 1]
ScanRank(k) == IF k[1] = "pos" THEN k[2] ELSE Len(feature_weights.pos) + k[2]

(* The raw identifiers of a feature and those a source keeps of them.       *)
RawNames(feature) ==
  IF feature.kind = "list" THEN {feature.value[i].name : i \in DOMAIN feature.value}
  ELSE {feature.value}
SourcePrefix(s) == IF IsUnion THEN s[1] \o SEP ELSE EmptyStr
IdsFor(k, s) ==
  {SliceFrom(x, Len(SourcePrefix(s))) :
     x \in {y \in RawNames(FwAt(k).feature) :
              /\ StartsWith(y, SourcePrefix(s))
              /\ Len(y) > Len(SourcePrefix(s))}}

MatchedKeys ==
  UNION {DOMAIN named_found_features[i][2] : i \in DOMAIN named_found_features}

IsSynthetic(e) == e.feature.kind = "formatted"
Residual == result.other.pos \o result.other.neg
CountIn(seq, P(_)) == Cardinality({i \in DOMAIN seq : P(seq[i])})

SumWeights(keys) ==
  LET RECURSIVE go(_)
      go(ks) == IF ks = {} THEN 0
                ELSE LET k == CHOOSE x \in ks : TRUE
                     IN  FwAt(k).weight + go(ks \ {k})
  IN go(keys)


(* C1: in every returned result each (group, index) key of the original    *)
(* FeatureWeights is accounted for exactly once: either it is a key of     *)
(* some source's FoundFeatures map, or its FeatureWeight is one of the     *)
(* non-synthetic residual entries (as many copies as there are unmatched   *)
(* keys carrying that FeatureWeight), never both and never neither.        *)
C1_Completeness ==
  Returned =>
    /\ MatchedKeys \subseteq Keys
    /\ CountIn(Residual, LAMBDA e : ~IsSynthetic(e))
         = Cardinality(Keys \ MatchedKeys)
    /\ \A k \in Keys :
         CountIn(Residual, LAMBDA e : ~IsSynthetic(e) /\ e = FwAt(k))
           = Cardinality({j \in Keys \ MatchedKeys : FwAt(j) = FwAt(k)})

C1_Witness ==
  /\ Returned
  /\ IsUnion
  /\ Len(named_found_features) = 2
  /\ \E k \in Keys : /\ k \in DOMAIN named_found_features[1][2]
                     /\ k \in DOMAIN named_found_features[2][2]
  /\ Keys \ MatchedKeys # {}

(* The table of a source, said from the FeatureWeights: the identifiers it  *)
(* holds, and for each the key of the entry it keeps.                       *)
TableIds(s) == UNION {IdsFor(k, s) : k \in Keys}
FeatureFnOf(s) == IF IsUnion THEN PrefixFn(s[1] \o SEP) ELSE NoFeatureFn
TableOf(s) == feature_weights_dict(feature_weights, FeatureFnOf(s))

(* C2: for every applicable source the returned spans list is exactly the   *)
(* subsequence of the analyzer's pairs whose identifier is in the lookup    *)
(* table, in encounter order, one entry per such pair, carrying the         *)
(* discovered identifier, the pair's spans and the table's weight for the   *)
(* identifier; the FoundFeatures keys are the table keys of those pairs.    *)
C2_SpansAreMatchedPairs ==
  Returned =>
    \A n \in DOMAIN ApplicableSources :
      LET s == ApplicableSources[n]
          pairs == PairsOfSource(s)
          spans == result.docs[n].spans
          ids == TableIds(s)
          table == TableOf(s)
          hits == {i \in DOMAIN pairs : pairs[i][2] \in ids}
          rank == [i \in hits |-> Cardinality({h \in hits : h <= i})]
      IN  /\ DOMAIN table = ids
          /\ Len(spans) = Cardinality(hits)
          /\ \A i \in hits :
               spans[rank[i]] = << pairs[i][2], pairs[i][1], table[pairs[i][2]].weight >>
          /\ DOMAIN named_found_features[n][2] = {table[pairs[i][2]].key : i \in hits}

(* A source whose analyzer yields a miss between two hits on different      *)
(* identifiers: the miss is skipped and the encounter order is kept.        *)
C2_Witness ==
  /\ Returned
  /\ \E n \in DOMAIN ApplicableSources :
       LET s == ApplicableSources[n]
       IN  /\ Len(result.docs[n].spans) = 2
           /\ Len(PairsOfSource(s)) = 3
           /\ result.docs[n].spans[1][1] # result.docs[n].spans[2][1]
           /\ result.docs[n].spans[1][3] # result.docs[n].spans[2][3]

(* C3: a source named n of a union matches only identifiers that start      *)
(* with n__, compared after the prefix is stripped: every key of its        *)
(* FoundFeatures and every entry of its spans comes from a FeatureWeight    *)
(* having the raw identifier n__<discovered identifier>; so an atomic       *)
(* feature a__t gives source b neither a span entry nor a key.              *)
C3_UnionDisjointness ==
  (Returned /\ IsUnion) =>
    \A n \in DOMAIN ApplicableSources :
      LET s == ApplicableSources[n]
          found == DOMAIN named_found_features[n][2]
          spans == result.docs[n].spans
      IN  /\ \A k \in found :
               \E f \in Discovered(s) :
                 (s[1] \o SEP \o f) \in RawNames(FwAt(k).feature)
          /\ \A j \in DOMAIN spans :
               \E k \in found :
                 /\ (s[1] \o SEP \o spans[j][1]) \in RawNames(FwAt(k).feature)
                 /\ FwAt(k).weight = spans[j][3]
          /\ \A k \in Keys :
               (FwAt(k).feature.kind = "str"
                  /\ ~StartsWith(FwAt(k).feature.value, s[1] \o SEP))
                 => k \notin found

(* Sources a and b both discover t; a__t is matched by a, and b matches     *)
(* nothing although its analyzer yields t.                                  *)
C3_Witness ==
  /\ Returned
  /\ IsUnion
  /\ Len(ApplicableSources) = 2
  /\ \E n, m \in DOMAIN ApplicableSources :
       /\ ApplicableSources[n][1] = NAME_A
       /\ ApplicableSources[m][1] = NAME_B
       /\ TOK_T \in Discovered(ApplicableSources[m])
       /\ \E k \in DOMAIN named_found_features[n][2] :
            FwAt(k).feature = StrFeature(Prefixed(NAME_A, TOK_T))
       /\ DOMAIN named_found_features[m][2] = {}
       /\ result.docs[m].spans = <<>>

LabelOf(name) ==
  IF name = EmptyStr THEN <<"Highlighted in text (sum)">>
  ELSE name \o <<": ", "Highlighted in text (sum)">>

(* C4: the residual holds exactly one synthetic summary entry for each      *)
(* source whose FoundFeatures map is non-empty and none for a source whose  *)
(* map is empty; its weight is the sum of the weights of the source's       *)
(* distinct matched keys and its label is "<name>: Highlighted in text      *)
(* (sum)", or "Highlighted in text (sum)" for the single unnamed source.    *)
C4_SummaryEntries ==
  Returned =>
    /\ CountIn(Residual, IsSynthetic)
         = Cardinality({n \in DOMAIN named_found_features :
                          DOMAIN named_found_features[n][2] # {}})
    /\ \A n \in DOMAIN named_found_features :
         LET name == named_found_features[n][1]
             found == DOMAIN named_found_features[n][2]
             mine(e) == IsSynthetic(e) /\ e.feature.value = LabelOf(name)
         IN  /\ (name = EmptyStr) <=> ~IsUnion
             /\ IF found = {}
                  THEN CountIn(Residual, mine) = 0
                  ELSE /\ CountIn(Residual, mine) = 1
                       /\ \A i \in DOMAIN Residual :
                            mine(Residual[i]) => Residual[i].weight = SumWeights(found)

(* Two sources with non-empty maps, one of them discovering the identifier  *)
(* of one key twice.                                                        *)
C4_Witness ==
  /\ Returned
  /\ IsUnion
  /\ CountIn(Residual, IsSynthetic) = 2
  /\ \E n \in DOMAIN named_found_features :
       Len(result.docs[n].spans) > Cardinality(DOMAIN named_found_features[n][2])

(* C5: the call returns None exactly when no source is applicable (the      *)
(* single vectorizer declines, or every source of the union does);          *)
(* otherwise docs holds one DocWeightedSpans per non-declining source, in   *)
(* source order, tagged with the source name in the union case, and only    *)
(* the non-declining sources have a FoundFeatures map.                      *)
C5_NoneIffNoApplicableSource ==
  Done =>
    /\ result.isNone <=> (ApplicableSources = <<>>)
    /\ ~result.isNone =>
         /\ Len(result.docs) = Len(ApplicableSources)
         /\ Len(named_found_features) = Len(ApplicableSources)
         /\ \A n \in DOMAIN ApplicableSources :
              /\ named_found_features[n][1] = ApplicableSources[n][1]
              /\ result.docs[n].vec_name = ApplicableSources[n][1]
              /\ result.docs[n].document = Join(doc)
              /\ result.docs[n].preserve_density
                   = (Unwrapped(ApplicableSources[n][2]).analyzer # "word")

(* A union whose first source declines and whose second does not.           *)
C5_Witness ==
  /\ Returned
  /\ IsUnion
  /\ Len(Sources) = 2
  /\ Declines(Sources[1][2])
  /\ Len(result.docs) = 1
  /\ result.docs[1].vec_name = Sources[2][1]

(* Items of one magnitude, in the order the sequence holds them.            *)
OfMagnitude(seq, m, nonneg) ==
  SelectSeq(seq, LAMBDA e : Abs(e.weight) = m /\ ((e.weight >= 0) <=> nonneg))

(* C6: pos and neg of the residual are each in non-increasing order of      *)
(* absolute weight, and entries of equal absolute weight keep the order in  *)
(* which they were appended: unmatched pos entries by index, unmatched neg  *)
(* entries by index, then the summary entries in source order.              *)
C6_SortedStable ==
  Returned =>
    LET appended == OtherItems(feature_weights, named_found_features)
        mags == {Abs(appended[i].weight) : i \in DOMAIN appended}
    IN  /\ \A g \in {"pos", "neg"} :
             \A i, j \in DOMAIN result.other[g] :
               i < j => Abs(result.other[g][i].weight) >= Abs(result.other[g][j].weight)
        /\ \A m \in mags :
             /\ OfMagnitude(result.other.pos, m, TRUE) = OfMagnitude(appended, m, TRUE)
             /\ OfMagnitude(result.other.neg, m, FALSE) = OfMagnitude(appended, m, FALSE)

(* The sort moves two summary entries of equal weight in front of a        *)
(* lighter unmatched entry and leaves the two in source order.              *)
C6_Witness ==
  /\ Returned
  /\ IsUnion
  /\ \E g \in {"pos", "neg"} :
       /\ Len(result.other[g]) = 3
       /\ IsSynthetic(result.other[g][1])
       /\ IsSynthetic(result.other[g][2])
       /\ ~IsSynthetic(result.other[g][3])
       /\ result.other[g][1].feature.value = LabelOf(named_found_features[1][1])
       /\ result.other[g][2].feature.value = LabelOf(named_found_features[2][1])
       /\ result.other[g][1].weight = result.other[g][2].weight
       /\ Abs(result.other[g][2].weight) > Abs(result.other[g][3].weight)

SameItems(seq1, seq2) ==
  /\ Len(seq1) = Len(seq2)
  /\ \A i \in DOMAIN seq2 :
       CountIn(seq1, LAMBDA e : e = seq2[i]) = CountIn(seq2, LAMBDA e : e = seq2[i])

(* C7: in every returned residual each pos entry has weight >= 0 and each   *)
(* neg entry weight < 0, the summary entries included, and every appended   *)
(* item is in exactly one of the two groups.                                *)
C7_SignPartition ==
  Returned =>
    /\ \A i \in DOMAIN result.other.pos : result.other.pos[i].weight >= 0
    /\ \A i \in DOMAIN result.other.neg : result.other.neg[i].weight < 0
    /\ SameItems(Residual, OtherItems(feature_weights, named_found_features))

(* A source whose matched weights sum to zero: its summary entry is in pos. *)
C7_Witness ==
  /\ Returned
  /\ \E n \in DOMAIN named_found_features :
       /\ Cardinality(DOMAIN named_found_features[n][2]) = 2
       /\ SumWeights(DOMAIN named_found_features[n][2]) = 0
  /\ \E i \in DOMAIN result.other.pos :
       IsSynthetic(result.other.pos[i]) /\ result.other.pos[i].weight = 0

(* C8: the residual's pos_remaining and neg_remaining are those of the      *)
(* input FeatureWeights, whatever was matched, unmatched or summarised.     *)
C8_RemainingPassedThrough ==
  Returned =>
    /\ result.other.pos_remaining = feature_weights.pos_remaining
    /\ result.other.neg_remaining = feature_weights.neg_remaining

C8_Witness ==
  /\ Returned
  /\ feature_weights.pos_remaining # feature_weights.neg_remaining
  /\ result.other.pos_remaining = feature_weights.pos_remaining
  /\ MatchedKeys # {}
  /\ Keys \ MatchedKeys # {}

OriginalItems == feature_weights.pos \o feature_weights.neg

(* C9: with an applicable analyzer, empty FeatureWeights or an analyzer     *)
(* that yields nothing give a result that is not None, with empty spans     *)
(* and no summary entry; with empty FeatureWeights the residual is empty    *)
(* in both groups, with an empty document it holds every original entry.    *)
C9_EmptyInputs ==
  (Done /\ ApplicableSources # <<>>) =>
    /\ (OriginalItems = <<>>
          \/ \A n \in DOMAIN ApplicableSources : PairsOfSource(ApplicableSources[n]) = <<>>)
         => /\ ~result.isNone
            /\ \A n \in DOMAIN result.docs : result.docs[n].spans = <<>>
            /\ CountIn(Residual, IsSynthetic) = 0
            /\ SameItems(Residual, OriginalItems)
    /\ OriginalItems = <<>> => (result.other.pos = <<>> /\ result.other.neg = <<>>)

(* An empty document with two FeatureWeight entries, both in the residual.  *)
C9_Witness ==
  /\ Returned
  /\ doc = <<>>
  /\ Len(OriginalItems) = 2
  /\ Len(Residual) = 2
  /\ result.docs[1].spans = <<>>

(* C10: when two entries with different keys resolve to one identifier in   *)
(* a source, the entry later in the scan (pos by index, then neg by index)  *)
(* is the one kept: each discovered occurrence of the identifier has the    *)
(* later entry's weight and marks the later key; the earlier key is marked  *)
(* by that source only through another of its identifiers, and when none    *)
(* of its other identifiers is discovered the earlier entry is in the       *)
(* residual, unchanged.                                                     *)
C10_LaterEntryWins ==
  Returned =>
    \A n \in DOMAIN ApplicableSources :
      LET s == ApplicableSources[n]
          found == named_found_features[n][2]
          spans == result.docs[n].spans
      IN  \A f \in Discovered(s) :
            LET holders == {k \in Keys : f \in IdsFor(k, s)}
                L == CHOOSE k \in holders :
                       \A j \in holders : ScanRank(j) <= ScanRank(k)
            IN  Cardinality(holders) >= 2 =>
                  /\ \A j \in DOMAIN spans :
                       spans[j][1] = f => spans[j][3] = FwAt(L).weight
                  /\ \E j \in DOMAIN spans : spans[j][1] = f
                  /\ L \in DOMAIN found
                  /\ found[L] = FwAt(L).weight
                  /\ \A E \in holders \ {L} :
                       /\ (IdsFor(E, s) \cap Discovered(s) = {f}) => E \notin DOMAIN found
                       /\ (\A m \in DOMAIN ApplicableSources :
                             \A g \in IdsFor(E, ApplicableSources[m])
                                        \cap Discovered(ApplicableSources[m]) :
                               m = n /\ g = f)
                          => /\ E \notin MatchedKeys
                             /\ CountIn(Residual, LAMBDA e : e = FwAt(E)) >= 1

(* Two entries of different weights on one discovered identifier: the       *)
(* span has the later weight and the earlier entry is in the residual.      *)
C10_Witness ==
  /\ Returned
  /\ Len(ApplicableSources) = 1
  /\ \E E, L \in Keys :
       /\ ScanRank(E) < ScanRank(L)
       /\ FwAt(E).weight # FwAt(L).weight
       /\ IdsFor(E, ApplicableSources[1]) \cap IdsFor(L, ApplicableSources[1])
            \cap Discovered(ApplicableSources[1]) # {}
       /\ MatchedKeys = {L}
       /\ Len(result.docs[1].spans) = 2
       /\ \A j \in DOMAIN result.docs[1].spans :
            result.docs[1].spans[j][3] = FwAt(L).weight
       /\ \E i \in DOMAIN Residual : Residual[i] = FwAt(E)

SumOfItems(seq) ==
  LET RECURSIVE go(_)
      go(i) == IF i > Len(seq) THEN 0 ELSE seq[i].weight + go(i + 1)
  IN go(1)

(* How many sources have the key in their FoundFeatures map.                *)
TimesMatched(k) ==
  Cardinality({n \in DOMAIN named_found_features :
                 k \in DOMAIN named_found_features[n][2]})

(* C11: weight conservation: in every returned result, single vectorizer    *)
(* or union, the weights of all residual entries (unmatched entries and     *)
(* summary entries, pos and neg) sum to the sum of the weights of all       *)
(* entries of the original FeatureWeights.                                  *)
C11_WeightConservation ==
  Returned => SumOfItems(Residual) = SumOfItems(OriginalItems)

(* What the code keeps instead: every key counts once per source that       *)
(* matched it, so the two sums agree when no key is in two maps.            *)
C11_SumCountsKeyPerSource ==
  Returned =>
    /\ SumOfItems(Residual)
         = SumWeights(Keys \ MatchedKeys)
             + SumOfItems([n \in DOMAIN named_found_features |->
                             [weight |-> SumWeights(DOMAIN named_found_features[n][2])]])
    /\ (\A k \in Keys : TimesMatched(k) <= 1)
         => SumOfItems(Residual) = SumOfItems(OriginalItems)

(* A key in the maps of two sources, the residual sum off by its weight.    *)
C11_DoubleCounted ==
  /\ Returned
  /\ \E k \in Keys : TimesMatched(k) = 2
  /\ SumOfItems(Residual) # SumOfItems(OriginalItems)

====
